---------------------------- MODULE Spec2Model ----------------------------
(***************************************************************************)
(* M-Queue: the Queue class of src/src/Queue/Queue.ts, an in-process       *)
(* sequential executor of asynchronous tasks built on an array, two flags  *)
(* and the id of the task last handed to the worker.                       *)
(*                                                                         *)
(* One action per public method, with the synchronous part of #Worker      *)
(* (everything up to its await) folded into the method that calls it, and  *)
(* one action per way the awaited promise settles (the continuation of     *)
(* #Worker after the await, or its abandonment when the promise rejects).  *)
(***************************************************************************)
EXTENDS Integers, Sequences, FiniteSets, TLC

(***************************************************************************)
(* Bounds of the model.                                                    *)
(***************************************************************************)
\* Number of pushes the queue accepts in one behaviour.
MaxPush == 3

(***************************************************************************)
(* JavaScript values.  A value is a record with a tag and a payload, so    *)
(* that the number 0, the empty string, undefined, null and NaN are all    *)
(* distinct values, as they are for === in the source.                     *)
(***************************************************************************)
Num(n) == [tag |-> "number", val |-> n]
Str(s) == [tag |-> "string", val |-> s]
Undefined == [tag |-> "undefined", val |-> 0]
Null == [tag |-> "null", val |-> 0]
NaN == [tag |-> "NaN", val |-> 0]

\* ToBoolean: the falsy values are undefined, null, NaN, 0 and "".
ToBoolean(v) == v \notin {Undefined, Null, NaN, Num(0), Str("")}

\* a === b: equal tag and payload, except that NaN equals nothing.
StrictEq(a, b) == a = b /\ a # NaN

\* a || b
OrElse(a, b) == IF ToBoolean(a) THEN a ELSE b

(***************************************************************************)
(* The enums of src/unnamed/part_000.                                      *)
(***************************************************************************)
UNDER_EXECUTION == 0
IDLE == 1
HIGH == 1
LOW == 0

(***************************************************************************)
(* Inputs.                                                                 *)
(***************************************************************************)
\* Options.Priority as a caller may pass it: absent, LOW, HIGH, a number
\* that is neither, and NaN.
PriorityArgs == {Undefined, Num(LOW), Num(HIGH), Num(2), NaN}

\* Options.ProcessId as a caller may pass it: absent, the number 0 and the
\* empty string (the ids mqPush generates are the non-zero numbers).
ProcessIdArgs == {Undefined, Num(0), Str("")}

\* Every id a record of the buffer can carry: the ones callers pass and the
\* ones mqPush generates (length + 1).
ProcessIds == (ProcessIdArgs \ {Undefined}) \cup {Num(k) : k \in 1..MaxPush}

VARIABLES
    Queue,              \* #Queue: the pending records, front first
    isProcessStartFlag, \* #isProcessStartFlag
    ProcessState,       \* #ProcessState
    CurrentProcessId,   \* CurrentProcessId
    awaiting,           \* records whose callable was invoked by #Worker and
                        \* whose promise is still pending (the `ele` of each
                        \* suspended #Worker invocation)
    emitted,            \* the values of the getResult notifications
                        \* published so far, in order (the whole of the
                        \* latest notification is in `last`)
    pushes,             \* the number of pushes accepted so far
    dequeued,           \* the callables #Worker has invoked, in order
    failed,             \* the callables whose promise rejected
    taken,              \* the callables of the records mqPop and mqRemove
                        \* have taken out of the buffer
    last                \* the last step: the operation, its arguments and
                        \* what it returned or threw

vars == <<Queue, isProcessStartFlag, ProcessState, CurrentProcessId, awaiting,
          emitted, pushes, dequeued, failed, taken, last>>

\* What a call threw.
NoError == "none"
ValidationError == "Priority must be HIGH(1) or LOW(0)"
EmptyQueueError == "Queue is empty"
ActiveTaskError == "Process already under execution"

\* The record of a step.
Step(op, priority, arg, err, id, len) ==
    [op |-> op, Priority |-> priority, arg |-> arg, err |-> err,
     ProcessId |-> id, QueueLength |-> len]

Init ==
    /\ Queue = <<>>
    /\ isProcessStartFlag = FALSE
    /\ ProcessState = IDLE
    /\ CurrentProcessId = Null
    /\ awaiting = {}
    /\ emitted = <<>>
    /\ pushes = 0
    /\ dequeued = <<>>
    /\ failed = {}
    /\ taken = {}
    /\ last = Step("new", Undefined, Undefined, NoError, Undefined, 0)

(***************************************************************************)
(* #Worker, up to its await.                                               *)
(***************************************************************************)
\* A faulty guard: the test of the execution state is missing.
WorkerRuns_Unguarded(q, started, state) ==
    started /\ Len(q) # 0

\* The guard of #Worker: it returns at once unless the queue is started,
\* the buffer is non-empty and no task is under execution.
WorkerRuns(q, started, state) ==
    started /\ Len(q) # 0 /\ state # UNDER_EXECUTION

\* The current id #Worker records for the front record.
WorkerCurrentId(q) == OrElse(q[1].ProcessId, Null)

\* A faulty #Worker: it takes the record at the back, pop() for shift().
Worker_FromBack(q, started, state, aw) ==
    IF WorkerRuns(q, started, state)
    THEN /\ ProcessState' = UNDER_EXECUTION
         /\ CurrentProcessId' = OrElse(q[Len(q)].ProcessId, Null)
         /\ Queue' = SubSeq(q, 1, Len(q) - 1)
         /\ awaiting' = aw \cup {q[Len(q)]}
         /\ dequeued' = Append(dequeued, q[Len(q)].CallableFunction)
    ELSE /\ ProcessState' = state
         /\ CurrentProcessId' = CurrentProcessId
         /\ Queue' = q
         /\ awaiting' = aw
         /\ dequeued' = dequeued

\* A faulty #Worker: it reads the front record and leaves it in the
\* buffer, the shift() is missing.
Worker_NoShift(q, started, state, aw) ==
    IF WorkerRuns(q, started, state)
    THEN /\ ProcessState' = UNDER_EXECUTION
         /\ CurrentProcessId' = WorkerCurrentId(q)
         /\ Queue' = q
         /\ awaiting' = aw \cup {q[1]}
         /\ dequeued' = Append(dequeued, q[1].CallableFunction)
    ELSE /\ ProcessState' = state
         /\ CurrentProcessId' = CurrentProcessId
         /\ Queue' = q
         /\ awaiting' = aw
         /\ dequeued' = dequeued

\* #Worker called with buffer q, execution state `state` and pending
\* invocations aw: it marks the queue as executing, records the front
\* record's id, shifts the record out and invokes its callable.
Worker(q, started, state, aw) ==
    IF WorkerRuns(q, started, state)
    THEN /\ ProcessState' = UNDER_EXECUTION
         /\ CurrentProcessId' = WorkerCurrentId(q)
         /\ Queue' = Tail(q)
         /\ awaiting' = aw \cup {q[1]}
         /\ dequeued' = Append(dequeued, q[1].CallableFunction)
    ELSE /\ ProcessState' = state
         /\ CurrentProcessId' = CurrentProcessId
         /\ Queue' = q
         /\ awaiting' = aw
         /\ dequeued' = dequeued

(***************************************************************************)
(* mqPush                                                                  *)
(***************************************************************************)
\* A faulty id: a counter of the pushes in place of the buffer's length.
PushId_Counter(q, id) == IF id # Undefined THEN id ELSE Num(pushes + 1)

\* The id of the new record: Options.ProcessId, or length + 1 when absent.
PushId(q, id) == IF id # Undefined THEN id ELSE Num(Len(q) + 1)

\* The priority check: a truthy priority that is neither 0 nor 1 throws.
PriorityRejected(p) ==
    ToBoolean(p) /\ ~StrictEq(p, Num(0)) /\ ~StrictEq(p, Num(1))

\* Options?.Priority === Priority.HIGH
IsHigh(p) == StrictEq(p, Num(HIGH))

\* A faulty insertion: every record is appended, whatever its priority.
Insert_AlwaysBack(q, p, rec) == Append(q, rec)

\* unshift for HIGH, push for everything else.
Insert(q, p, rec) ==
    IF IsHigh(p) THEN <<rec>> \o q ELSE Append(q, rec)

\* A faulty push: the record is inserted but #Worker is not called.
mqPush_NoTick(Process, p, id) ==
    IF PriorityRejected(p)
    THEN /\ last' = Step("mqPush", p, id, ValidationError, Undefined, 0)
         /\ UNCHANGED <<Queue, isProcessStartFlag, ProcessState,
                        CurrentProcessId, awaiting, emitted, pushes,
                        dequeued, failed, taken>>
    ELSE /\ LET rec == [CallableFunction |-> Process,
                        ProcessId |-> PushId(Queue, id)]
            IN /\ Queue' = Insert(Queue, p, rec)
               /\ pushes' = pushes + 1
               /\ last' = Step("mqPush", p, id, NoError, rec.ProcessId,
                               Len(Queue'))
         /\ UNCHANGED <<isProcessStartFlag, ProcessState, CurrentProcessId,
                        awaiting, emitted, dequeued, failed, taken>>

mqPush(Process, p, id) ==
    IF PriorityRejected(p)
    THEN /\ last' = Step("mqPush", p, id, ValidationError, Undefined, 0)
         /\ UNCHANGED <<Queue, isProcessStartFlag, ProcessState,
                        CurrentProcessId, awaiting, emitted, pushes,
                        dequeued, failed, taken>>
    ELSE /\ LET rec == [CallableFunction |-> Process,
                        ProcessId |-> PushId(Queue, id)]
            IN /\ Worker(Insert(Queue, p, rec), isProcessStartFlag,
                         ProcessState, awaiting)
               /\ pushes' = pushes + 1
               /\ last' = Step("mqPush", p, id, NoError, rec.ProcessId,
                               Len(Queue'))
         /\ UNCHANGED <<isProcessStartFlag, emitted, failed, taken>>

(***************************************************************************)
(* mqPop                                                                   *)
(***************************************************************************)
\* A faulty pop: shift() for pop(), which leaves all but the first record.
AfterPop_Shift(q) == Tail(q)

\* A faulty pop: the tail record is read and left in the buffer.
AfterPop_Peek(q) == q

\* What pop() leaves of q: everything but the last record.
AfterPop(q) == SubSeq(q, 1, Len(q) - 1)

mqPop ==
    IF Len(Queue) = 0
    THEN /\ last' = Step("mqPop", Undefined, Undefined, EmptyQueueError,
                         Undefined, 0)
         /\ UNCHANGED <<Queue, isProcessStartFlag, ProcessState,
                        CurrentProcessId, awaiting, emitted, pushes,
                        dequeued, failed, taken>>
    ELSE IF StrictEq(CurrentProcessId, Queue[Len(Queue)].ProcessId)
    THEN /\ last' = Step("mqPop", Undefined, Undefined, ActiveTaskError,
                         Undefined, 0)
         /\ UNCHANGED <<Queue, isProcessStartFlag, ProcessState,
                        CurrentProcessId, awaiting, emitted, pushes,
                        dequeued, failed, taken>>
    ELSE /\ Queue' = AfterPop(Queue)
         /\ taken' = taken \cup {Queue[Len(Queue)].CallableFunction}
         /\ last' = Step("mqPop", Undefined, Undefined, NoError,
                         Queue[Len(Queue)].ProcessId, Len(Queue'))
         /\ UNCHANGED <<isProcessStartFlag, ProcessState, CurrentProcessId,
                        awaiting, emitted, pushes, dequeued, failed>>

(***************************************************************************)
(* mqRemove                                                                *)
(***************************************************************************)
\* findIndex: the first index (from 0) whose record carries the id, or -1.
FindIndex(q, id) ==
    IF \E i \in 1..Len(q) : StrictEq(q[i].ProcessId, id)
    THEN (CHOOSE i \in 1..Len(q) :
              /\ StrictEq(q[i].ProcessId, id)
              /\ \A j \in 1..(i - 1) : ~StrictEq(q[j].ProcessId, id)) - 1
    ELSE -1

\* The index (from 0) at which splice(start, 1) starts on q: a negative
\* start counts from the end, and the result is clamped to 0..length.
SpliceStart(q, start) ==
    IF start < 0
    THEN (IF Len(q) + start < 0 THEN 0 ELSE Len(q) + start)
    ELSE (IF start > Len(q) THEN Len(q) ELSE start)

\* The records splice(start, 1) removes from q (at most one).
SpliceRemoved(q, start) ==
    SubSeq(q, SpliceStart(q, start) + 1, SpliceStart(q, start) + 1)

\* A faulty splice: splice(start) without its delete count removes
\* everything from start on.
SpliceRest_NoCount(q, start) == SubSeq(q, 1, SpliceStart(q, start))

\* What splice(start, 1) leaves of q.
SpliceRest(q, start) ==
    SubSeq(q, 1, SpliceStart(q, start))
        \o SubSeq(q, SpliceStart(q, start) + 2, Len(q))

mqRemove(id) ==
    IF Len(Queue) = 0
    THEN /\ last' = Step("mqRemove", Undefined, id, EmptyQueueError,
                         Undefined, 0)
         /\ UNCHANGED <<Queue, isProcessStartFlag, ProcessState,
                        CurrentProcessId, awaiting, emitted, pushes,
                        dequeued, failed, taken>>
    ELSE IF StrictEq(CurrentProcessId, id)
    THEN /\ last' = Step("mqRemove", Undefined, id, ActiveTaskError,
                         Undefined, 0)
         /\ UNCHANGED <<Queue, isProcessStartFlag, ProcessState,
                        CurrentProcessId, awaiting, emitted, pushes,
                        dequeued, failed, taken>>
    ELSE /\ Queue' = SpliceRest(Queue, FindIndex(Queue, id))
         /\ taken' = taken \cup
                {SpliceRemoved(Queue, FindIndex(Queue, id))[1].CallableFunction}
         /\ last' = Step("mqRemove", Undefined, id, NoError,
                         SpliceRemoved(Queue, FindIndex(Queue, id))[1].ProcessId,
                         Len(Queue'))
         /\ UNCHANGED <<isProcessStartFlag, ProcessState, CurrentProcessId,
                        awaiting, emitted, pushes, dequeued, failed>>

(***************************************************************************)
(* mqStart, mqEnd                                                          *)
(***************************************************************************)
\* A faulty start: the flag is set but #Worker is not called.
mqStart_NoTick ==
    /\ isProcessStartFlag' = TRUE
    /\ last' = Step("mqStart", Undefined, Undefined, NoError, Undefined, 0)
    /\ UNCHANGED <<Queue, ProcessState, CurrentProcessId, awaiting, emitted,
                   pushes, dequeued, failed, taken>>

mqStart ==
    /\ isProcessStartFlag' = TRUE
    /\ Worker(Queue, TRUE, ProcessState, awaiting)
    /\ last' = Step("mqStart", Undefined, Undefined, NoError, Undefined, 0)
    /\ UNCHANGED <<emitted, pushes, failed, taken>>

mqEnd ==
    /\ isProcessStartFlag' = FALSE
    /\ last' = Step("mqEnd", Undefined, Undefined, NoError, Undefined, 0)
    /\ UNCHANGED <<Queue, ProcessState, CurrentProcessId, awaiting, emitted,
                   pushes, dequeued, failed, taken>>

(***************************************************************************)
(* #Worker, after its await.                                               *)
(***************************************************************************)
\* A faulty notification: it reads the id from CurrentProcessId.
Result_CurrentId(ele, q) ==
    [value |-> ele.CallableFunction, processId |-> CurrentProcessId,
     queueLength |-> Len(q)]

\* The notification #Worker builds for record ele once its promise has
\* resolved; every callable resolves to a value that names it.
Result(ele, q) ==
    [value |-> ele.CallableFunction, processId |-> ele.ProcessId,
     queueLength |-> Len(q)]

\* A faulty continuation: the closing call of #Worker is missing.
Resolve_NoRetick(ele) ==
    /\ ele \in awaiting
    /\ emitted' = Append(emitted, Result(ele, Queue).value)
    /\ ProcessState' = IDLE
    /\ awaiting' = awaiting \ {ele}
    /\ last' = Step("resolve", Undefined, Undefined, NoError,
                    Result(ele, Queue).processId,
                    Result(ele, Queue).queueLength)
    /\ UNCHANGED <<Queue, isProcessStartFlag, CurrentProcessId, pushes,
                   dequeued, failed, taken>>

\* The promise of ele's callable resolves: #Worker resumes, publishes the
\* notification, goes back to IDLE and calls itself.
Resolve(ele) ==
    /\ ele \in awaiting
    /\ emitted' = Append(emitted, Result(ele, Queue).value)
    /\ Worker(Queue, isProcessStartFlag, IDLE, awaiting \ {ele})
    /\ last' = Step("resolve", Undefined, Undefined, NoError,
                    Result(ele, Queue).processId,
                    Result(ele, Queue).queueLength)
    /\ UNCHANGED <<isProcessStartFlag, pushes, failed, taken>>

\* A faulty continuation: the failure is caught inside #Worker, which
\* goes back to IDLE and calls itself.
Reject_Isolated(ele) ==
    /\ ele \in awaiting
    /\ failed' = failed \cup {ele.CallableFunction}
    /\ Worker(Queue, isProcessStartFlag, IDLE, awaiting \ {ele})
    /\ last' = Step("reject", Undefined, Undefined, NoError, ele.ProcessId,
                    Len(Queue))
    /\ UNCHANGED <<isProcessStartFlag, emitted, pushes, taken>>

\* The promise of ele's callable rejects (or the callable throws): the
\* await throws out of #Worker and nothing after it runs.
Reject(ele) ==
    /\ ele \in awaiting
    /\ awaiting' = awaiting \ {ele}
    /\ failed' = failed \cup {ele.CallableFunction}
    /\ last' = Step("reject", Undefined, Undefined, NoError, ele.ProcessId,
                    Len(Queue))
    /\ UNCHANGED <<Queue, isProcessStartFlag, ProcessState, CurrentProcessId,
                   emitted, pushes, dequeued, taken>>

\* The callable handed to the n-th accepted push, labelled by its caller.
Callable(n, label) == [n |-> n, label |-> label]

\* A push is offered while the bound on accepted pushes allows it.
PushAllowed(p, max) == pushes < max \/ PriorityRejected(p)

Next ==
    \/ \E p \in PriorityArgs, id \in ProcessIdArgs :
          /\ PushAllowed(p, MaxPush)
          /\ mqPush(Callable(pushes + 1, Undefined), p, id)
    \/ mqPop
    \/ \E id \in ProcessIds : mqRemove(id)
    \/ \E ele \in awaiting : Resolve(ele)
    \/ \E ele \in awaiting : Reject(ele)
    \/ mqStart
    \/ mqEnd

Spec == Init /\ [][Next]_vars

(***************************************************************************)
(* A drain: tasks are pushed on a queue that was never started, mqStart    *)
(* is called once, and from then on the only steps are the settlements of  *)
(* the tasks, all of which resolve.  Every callable is labelled with the   *)
(* priority it is pushed with.                                             *)
(***************************************************************************)
\* Number of pushes of a drain.
MaxDrain == 4

\* Options.ProcessId as the pushes of a drain pass it.
DrainIdArgs == {Undefined, Num(0)}

DrainPush ==
    \E p \in PriorityArgs, id \in DrainIdArgs :
        /\ ~isProcessStartFlag
        /\ PushAllowed(p, MaxDrain)
        /\ mqPush(Callable(pushes + 1, p), p, id)

DrainStart == ~isProcessStartFlag /\ mqStart

DrainResolve == \E ele \in awaiting : Resolve(ele)

NextDrain == DrainPush \/ DrainStart \/ DrainResolve

\* A pending promise whose callable resolves does resolve, and the event
\* loop then runs the continuation of #Worker.
SpecDrain == Init /\ [][NextDrain]_vars /\ WF_vars(DrainResolve)

\* A settlement: the promise of the executing task resolves or rejects.
Settle == \E ele \in awaiting : Resolve(ele) \/ Reject(ele)

\* The program under any interleaving of calls, with the event loop's
\* guarantee that a pending promise is settled in the end and the
\* continuation of #Worker then runs.
SpecLive == Init /\ [][Next]_vars /\ WF_vars(Settle)

(***************************************************************************)
(* Vocabulary of the properties.                                           *)
(***************************************************************************)
\* The state of the queue object.
queue == <<Queue, isProcessStartFlag, ProcessState, CurrentProcessId>>

\* getCurrentProcessId(), getQueueLength()
getCurrentProcessId == CurrentProcessId
getQueueLength == Len(Queue)

\* The ids of the pending records.
PendingIds == {Queue[i].ProcessId : i \in 1..Len(Queue)}

\* The step now taken is a call of op / a call of op that returned.
Called(op) == last'.op = op
Returned(op) == last'.op = op /\ last'.err = NoError

\* The records this step dequeued for execution, as a sequence (#Worker
\* dequeues at most one per step).
Dequeued ==
    IF awaiting' \ awaiting = {} THEN <<>>
    ELSE <<CHOOSE ele \in awaiting' \ awaiting : TRUE>>

\* The error the specification names for a remove of an id that is absent.
NotFoundError == "NotFound"


(***************************************************************************)
(* C1.  At most one task is executing (dequeued and not yet settled) in    *)
(* every state, and a mqPush or mqStart made while a task is executing     *)
(* dequeues nothing.                                                       *)
(***************************************************************************)
C1_AtMostOneExecuting ==
    [][/\ Cardinality(awaiting') <= 1
       /\ (ProcessState = UNDER_EXECUTION
             /\ (Called("mqPush") \/ Called("mqStart")))
            => awaiting' = awaiting]_vars

\* A push was accepted while a task was executing, and it only enqueued.
C1_Witness ==
    /\ last.op = "mqPush" /\ last.err = NoError
    /\ isProcessStartFlag
    /\ Cardinality(awaiting) = 1
    /\ \E i \in 1..Len(Queue) : Queue[i].CallableFunction.n = pushes

(***************************************************************************)
(* C2.  mqStart on a stopped queue holding N tasks that all resolve, with  *)
(* no other call afterwards: the tasks execute one at a time, the k-th     *)
(* notification carries queueLength = N - k, and eventually N              *)
(* notifications have been published and the queue is IDLE and empty.      *)
(***************************************************************************)
DrainDone ==
    /\ Queue = <<>>
    /\ awaiting = {}
    /\ ProcessState = IDLE
    /\ Len(emitted) = pushes

C2_StartDrainsAll ==
    /\ [](Cardinality(awaiting) <= 1)
    /\ [](last.op = "resolve" => last.QueueLength = pushes - Len(emitted))
    /\ [](Len(emitted) <= pushes)
    /\ (isProcessStartFlag ~> DrainDone)

\* A drain of three or more tasks has completed.
C2_Witness == isProcessStartFlag /\ DrainDone /\ pushes >= 3

(***************************************************************************)
(* C3.  Tasks pushed on a stopped queue that is then started execute in    *)
(* buffer order: every HIGH task before any LOW task, HIGH tasks in        *)
(* reverse push order, LOW tasks in push order.                            *)
(***************************************************************************)
\* A task pushed with Priority HIGH; one pushed with LOW or no priority.
IsHighTask(c) == c.label = Num(HIGH)
IsLowTask(c) == c.label \in {Num(LOW), Undefined}

\* c executes before d.
InOrder(c, d) ==
    /\ ~(IsLowTask(c) /\ IsHighTask(d))
    /\ (IsHighTask(c) /\ IsHighTask(d)) => c.n > d.n
    /\ (IsLowTask(c) /\ IsLowTask(d)) => c.n < d.n

\* The callables in the order in which they were dequeued for execution,
\* followed by the pending ones in buffer order.
ExecutionOrder ==
    emitted
      \o (IF awaiting = {} THEN <<>>
          ELSE <<(CHOOSE ele \in awaiting : TRUE).CallableFunction>>)
      \o [i \in 1..Len(Queue) |-> Queue[i].CallableFunction]

C3_DrainOrder ==
    /\ Cardinality(awaiting) <= 1
    /\ \A i, j \in 1..Len(ExecutionOrder) :
          i < j => InOrder(ExecutionOrder[i], ExecutionOrder[j])

\* Two HIGH and two LOW tasks have all executed.
C3_Witness ==
    /\ Len(emitted) = 4
    /\ Cardinality({i \in 1..4 : IsHighTask(emitted[i])}) = 2
    /\ Cardinality({i \in 1..4 : IsLowTask(emitted[i])}) = 2

(***************************************************************************)
(* C4.  An accepted mqPush with Priority HIGH puts the new record at the   *)
(* very front of the pending buffer, one with Priority LOW or with no      *)
(* priority at the very back, and the records already pending keep their   *)
(* order.  (The buffer as the push leaves it is the record the push's own  *)
(* worker tick dequeued, if any, followed by the pending records.)         *)
(***************************************************************************)
C4_PushPlacesRecord ==
    [][Returned("mqPush") =>
         LET rec == [CallableFunction |-> Callable(pushes', Undefined),
                     ProcessId |-> last'.ProcessId]
         IN /\ last'.Priority = Num(HIGH)
                 => Dequeued \o Queue' = <<rec>> \o Queue
            /\ last'.Priority \in {Num(LOW), Undefined}
                 => Dequeued \o Queue' = Queue \o <<rec>>]_vars

\* A(any), B(HIGH), C(HIGH) were pushed and the buffer is C, B, A.
C4_Witness ==
    /\ last.op = "mqPush" /\ last.err = NoError /\ last.Priority = Num(HIGH)
    /\ pushes = 3
    /\ Len(Queue) = 3
    /\ \A i \in 1..3 : Queue[i].CallableFunction.n = 4 - i

(***************************************************************************)
(* C5.  The current-task id is set if and only if the execution flag is    *)
(* EXECUTING.                                                              *)
(***************************************************************************)
C5_CurrentIdIffExecuting ==
    (getCurrentProcessId # Null) <=> (ProcessState = UNDER_EXECUTION)

(***************************************************************************)
(* C6.  mqRemove(id) on a non-empty buffer that holds no record with that  *)
(* id, id not being the current-task id, fails with NotFoundError and      *)
(* leaves the pending buffer unchanged.                                    *)
(***************************************************************************)
C6_RemoveAbsentFails ==
    [][(/\ Called("mqRemove")
        /\ Len(Queue) > 0
        /\ last'.arg \notin PendingIds
        /\ last'.arg # CurrentProcessId)
         => (last'.err = NotFoundError /\ Queue' = Queue)]_vars

(***************************************************************************)
(* C7.  While a task is executing, mqRemove with that task's id fails      *)
(* with ActiveTaskError whatever the pending buffer holds, and leaves the  *)
(* queue unchanged.                                                        *)
(***************************************************************************)
C7_RemoveExecutingFails ==
    [][(/\ Called("mqRemove")
        /\ \E ele \in awaiting : ele.ProcessId = last'.arg)
         => (last'.err = ActiveTaskError /\ queue' = queue
               /\ awaiting' = awaiting)]_vars

(***************************************************************************)
(* C8.  getQueueLength() is one more after every accepted mqPush than      *)
(* before it, one less after every successful mqPop or mqRemove, and one   *)
(* less after every dequeue for execution.                                 *)
(***************************************************************************)
\* As claimed: every accepted push leaves the length one higher.
C8_LengthAsClaimed ==
    [][/\ Returned("mqPush") => getQueueLength' = getQueueLength + 1
       /\ (Returned("mqPop") \/ Returned("mqRemove"))
            => getQueueLength' = getQueueLength - 1
       /\ (Called("mqStart") \/ Called("resolve"))
            => getQueueLength' = getQueueLength - Len(Dequeued)]_vars

\* As amended: an accepted push leaves the length one higher, except on a
\* started and idle queue, where its own worker tick dequeues a record in
\* the same call and the length is what it was.
C8_LengthSteps ==
    [][/\ Returned("mqPush") =>
            /\ getQueueLength' =
                 IF isProcessStartFlag /\ ProcessState = IDLE
                 THEN getQueueLength ELSE getQueueLength + 1
            /\ getQueueLength' = getQueueLength + 1 - Len(Dequeued)
            /\ last'.QueueLength = getQueueLength'
       /\ (Returned("mqPop") \/ Returned("mqRemove"))
            => getQueueLength' = getQueueLength - 1
       /\ (Called("mqStart") \/ Called("resolve"))
            => getQueueLength' = getQueueLength - Len(Dequeued)]_vars

\* A push on a started, idle queue was dequeued by its own worker tick.
C8_Witness ==
    /\ last.op = "mqPush" /\ last.err = NoError
    /\ last.QueueLength = 0
    /\ \E ele \in awaiting : ele.CallableFunction.n = pushes

(***************************************************************************)
(* C9.  mqPush with a Priority other than HIGH(1) or LOW(0) fails with     *)
(* ValidationError, leaves the buffer, the execution state and the         *)
(* current-task id as they were, and attempts no worker tick.              *)
(***************************************************************************)
C9_BadPriorityRejected ==
    [][(/\ Called("mqPush")
        /\ last'.Priority \notin {Num(HIGH), Num(LOW), Undefined})
         => (/\ last'.err = ValidationError
             /\ queue' = queue
             /\ awaiting' = awaiting)]_vars

(***************************************************************************)
(* C10.  mqPop on a non-empty buffer whose tail id differs from the        *)
(* current-task id removes exactly the tail record, returns its id and     *)
(* the new length, and leaves the other records in their order; on an      *)
(* empty buffer it fails with EmptyQueueError and changes nothing.         *)
(***************************************************************************)
C10_PopTakesTail ==
    [][Called("mqPop") =>
         /\ (Len(Queue) > 0 /\ Queue[Len(Queue)].ProcessId # CurrentProcessId)
              => /\ last'.err = NoError
                 /\ Queue' \o <<Queue[Len(Queue)]>> = Queue
                 /\ last'.ProcessId = Queue[Len(Queue)].ProcessId
                 /\ last'.QueueLength = Len(Queue) - 1
                 /\ getQueueLength' = Len(Queue) - 1
                 /\ UNCHANGED <<isProcessStartFlag, ProcessState,
                                CurrentProcessId, awaiting>>
         /\ Len(Queue) = 0
              => /\ last'.err = EmptyQueueError
                 /\ queue' = queue
                 /\ awaiting' = awaiting]_vars

\* A pop took the tail off a buffer of three records.
C10_Witness ==
    /\ last.op = "mqPop" /\ last.err = NoError
    /\ Len(Queue) = 2
    /\ ~isProcessStartFlag

(***************************************************************************)
(* C11.  mqPop removes the task that was added to the queue last: of the   *)
(* pending tasks, the one pushed most recently, whatever the priorities    *)
(* of the pushes.                                                          *)
(***************************************************************************)
\* The callables of the records of q.
Callables(q) == {q[i].CallableFunction : i \in 1..Len(q)}

\* The most recently pushed of the callables cs.
LastPushed(cs) == CHOOSE c \in cs : \A d \in cs : d.n <= c.n

C11_PopTakesLastPushed ==
    [][Returned("mqPop") =>
         Callables(Queue') = Callables(Queue) \ {LastPushed(Callables(Queue))}
      ]_vars

(***************************************************************************)
(* C12.  mqPush without a ProcessId stores and returns the id              *)
(* (length of the pending buffer before the push) + 1: the length at the   *)
(* time of the call, not a count of the pushes made.                       *)
(***************************************************************************)
C12_AutoIdIsLengthPlusOne ==
    [][(Returned("mqPush") /\ last'.arg = Undefined) =>
         /\ last'.ProcessId = Num(Len(Queue) + 1)
         /\ LET after == Dequeued \o Queue'
            IN \E i \in 1..Len(after) :
                  /\ after[i].CallableFunction.n = pushes'
                  /\ after[i].ProcessId = Num(Len(Queue) + 1)]_vars

\* push, push, pop, push on a stopped queue gave the ids 1, 2, 2.
C12_Witness ==
    /\ ~isProcessStartFlag /\ dequeued = <<>>
    /\ last.op = "mqPush" /\ last.err = NoError /\ last.arg = Undefined
    /\ pushes = 3
    /\ Len(Queue) = 2
    /\ Queue[1].CallableFunction.n = 1 /\ Queue[1].ProcessId = Num(1)
    /\ Queue[2].CallableFunction.n = 3 /\ Queue[2].ProcessId = Num(2)
    /\ taken = {Callable(2, Undefined)}
    /\ last.ProcessId = Num(2)


(***************************************************************************)
(* C13.  mqEnd changes nothing but the started flag: the pending buffer    *)
(* and the task in flight are as they were.  While the queue is stopped    *)
(* no step dequeues a task: an accepted push only lengthens the buffer,    *)
(* and the settlement of the task in flight publishes its notification     *)
(* and leaves the buffer alone.  Once the queue stays started and no task  *)
(* fails, the buffer drains and the last task settles.                     *)
(***************************************************************************)
C13_StopStep ==
    /\ Called("mqEnd") =>
          /\ ~isProcessStartFlag'
          /\ UNCHANGED <<Queue, ProcessState, CurrentProcessId, awaiting,
                         emitted, dequeued>>
    /\ ~isProcessStartFlag' =>
          /\ Dequeued = <<>> /\ dequeued' = dequeued
          /\ Returned("mqPush") => Len(Queue') = Len(Queue) + 1
          /\ Called("resolve") =>
                /\ Queue' = Queue
                /\ \E ele \in awaiting :
                      emitted' = Append(emitted, ele.CallableFunction)
    /\ (Called("mqStart") /\ Queue # <<>> /\ ProcessState = IDLE) =>
          /\ Dequeued = <<Queue[1]>>
          /\ Queue' = Tail(Queue)

C13_Drained == Queue = <<>> /\ awaiting = {}

C13_EndOnlyStops ==
    /\ [][C13_StopStep]_vars
    /\ (<>[]isProcessStartFlag /\ [](failed = {})) => <>[]C13_Drained

\* A task in flight has resolved on a stopped queue that holds a task.
C13_Witness ==
    /\ last.op = "resolve" /\ ~isProcessStartFlag
    /\ Queue # <<>> /\ ProcessState = IDLE /\ Len(emitted) = 1


(***************************************************************************)
(* C14.  Every resolve publishes one notification, for the task that       *)
(* resolved and with that task's id, and no other step publishes.  The     *)
(* notifications published so far are those of the dequeued tasks that     *)
(* have resolved, once each, in the order in which they were dequeued.     *)
(***************************************************************************)
\* The callables whose promise is pending.
Executing == {ele.CallableFunction : ele \in awaiting}

\* The dequeued callables that have resolved, in the order of dequeueing.
Resolved ==
    SelectSeq(dequeued, LAMBDA c : c \notin failed /\ c \notin Executing)

C14_ResolveStep ==
    /\ Called("resolve") =>
          \E ele \in awaiting :
              /\ emitted' = Append(emitted, ele.CallableFunction)
              /\ last'.ProcessId = ele.ProcessId
              /\ ele \notin awaiting'
    /\ ~Called("resolve") => emitted' = emitted
    /\ (emitted = Resolved)'

C14_OneNotificationInOrder == [][C14_ResolveStep]_vars

\* Two tasks have resolved, the second pushed (HIGH) before the first
\* pushed, and a third was popped in between.
C14_Witness ==
    /\ last.op = "resolve" /\ Len(emitted) = 2
    /\ emitted[1].n = 2 /\ emitted[2].n = 1
    /\ taken = {Callable(3, Undefined)}


(***************************************************************************)
(* C15.  A rejection publishes nothing and leaves the execution state at   *)
(* UNDER_EXECUTION.  From then on the state stays there and no step,       *)
(* mqPush and mqStart included, dequeues a task; no notification is ever   *)
(* published for a task that failed.                                       *)
(***************************************************************************)
C15_RejectStep ==
    /\ Called("reject") =>
          /\ emitted' = emitted
          /\ ProcessState' = UNDER_EXECUTION
          /\ Queue' = Queue
    /\ failed # {} =>
          /\ ProcessState' = UNDER_EXECUTION
          /\ Dequeued = <<>> /\ dequeued' = dequeued
          /\ awaiting' = {}
          /\ Returned("mqPush") => Len(Queue') = Len(Queue) + 1
          /\ Called("mqStart") => Queue' = Queue
    /\ \A i \in 1..Len(emitted') : emitted'[i] \notin failed'

C15_RejectionHaltsDraining == [][C15_RejectStep]_vars

\* A push was accepted on a started queue after a task had failed, and
\* the buffer holds it.
C15_Witness ==
    /\ last.op = "mqPush" /\ last.err = NoError
    /\ failed # {} /\ isProcessStartFlag
    /\ Queue # <<>> /\ Queue[Len(Queue)].CallableFunction.n = pushes


(***************************************************************************)
(* C16.  The record under execution is not in the pending buffer, and no   *)
(* record that was dequeued for execution is ever in the buffer again.     *)
(***************************************************************************)
C16_ExecutingNotPending ==
    /\ \A ele \in awaiting :
          /\ ele.CallableFunction \notin Callables(Queue)
          /\ \A i \in 1..Len(Queue) : Queue[i] # ele
    /\ \A i \in 1..Len(dequeued) : dequeued[i] \notin Callables(Queue)

\* A task is executing while two others are pending, one of them with
\* the id of the executing one.
C16_Witness ==
    /\ awaiting # {} /\ ProcessState = UNDER_EXECUTION /\ Len(Queue) = 2
    /\ \E ele \in awaiting : ele.ProcessId \in PendingIds


(***************************************************************************)
(* C17.  mqPop and mqRemove fail with ActiveTaskError only when the id     *)
(* they target (the tail record's id, the id passed) is the id of a task   *)
(* that is executing; while the execution state is IDLE, mqPop on a        *)
(* non-empty buffer and mqRemove of a pending id succeed.                  *)
(***************************************************************************)
\* The id the call of this step targets.
TargetId ==
    IF last'.op = "mqPop" THEN Queue[Len(Queue)].ProcessId ELSE last'.arg

C17_ActiveStep ==
    /\ ((Called("mqPop") \/ Called("mqRemove")) /\ last'.err = ActiveTaskError)
          => \E ele \in awaiting : ele.ProcessId = TargetId
    /\ (ProcessState = IDLE /\ Called("mqPop") /\ Queue # <<>>)
          => last'.err = NoError
    /\ (ProcessState = IDLE /\ Called("mqRemove") /\ last'.arg \in PendingIds)
          => last'.err = NoError

C17_ActiveErrorOnlyWhenExecuting == [][C17_ActiveStep]_vars


(***************************************************************************)
(* C18.  Whenever a step takes the queue from IDLE to UNDER_EXECUTION the  *)
(* current id becomes the id of the record it dequeued, whatever id the    *)
(* record carries (0 and the empty string included), and the current id    *)
(* is never null while a task executes.                                    *)
(***************************************************************************)
C18_DequeueStep ==
    /\ Dequeued # <<>> =>
          /\ ProcessState' = UNDER_EXECUTION
          /\ StrictEq(CurrentProcessId', Dequeued[1].ProcessId)
    /\ awaiting' # {} => CurrentProcessId' # Null

C18_CurrentIdIsDequeuedId == [][C18_DequeueStep]_vars


(***************************************************************************)
(* C19.  No lost wake-up: once a call or the handling of a settlement has  *)
(* returned, the queue is never started and IDLE with a non-empty buffer.  *)
(***************************************************************************)
C19_NoLostWakeup ==
    ~(isProcessStartFlag /\ ProcessState = IDLE /\ Queue # <<>>)

\* A resolve on a started queue has dequeued the next of two pending
\* tasks on its own.
C19_Witness ==
    /\ last.op = "resolve" /\ isProcessStartFlag
    /\ awaiting # {} /\ Queue # <<>> /\ Len(dequeued) = 2


(***************************************************************************)
(* C20.  Conservation of tasks: every task pushed so far is in exactly     *)
(* one place: pending in the buffer, executing, settled (resolved or       *)
(* failed), or taken out by mqPop or mqRemove.  No task is dequeued for    *)
(* execution twice, and a task that was taken out is never executed.       *)
(***************************************************************************)
\* The tasks found in the buffer and in the histories, and those settled.
Pushed ==
    Callables(Queue) \cup Executing \cup taken
        \cup {dequeued[i] : i \in 1..Len(dequeued)}
Settled == {emitted[i] : i \in 1..Len(emitted)} \cup failed

\* The places a task can be in.
Places == <<Callables(Queue), Executing, Settled, taken>>

C20_Conservation ==
    /\ {c.n : c \in Pushed} = 1..pushes
    /\ Cardinality(Pushed) = pushes
    /\ \A c \in Pushed :
          Cardinality({k \in 1..4 : c \in Places[k]}) = 1
    /\ Cardinality(Callables(Queue)) = Len(Queue)
    /\ \A i, j \in 1..Len(dequeued) : dequeued[i] = dequeued[j] => i = j
    /\ \A i \in 1..Len(dequeued) :
          /\ dequeued[i] \notin taken
          /\ dequeued[i] \in Executing \cup Settled

\* Of three tasks pushed one has resolved, one is executing and one was
\* taken out of the buffer.
C20_Witness ==
    /\ pushes = 3 /\ Len(emitted) = 1 /\ awaiting # {}
    /\ Cardinality(taken) = 1 /\ Queue = <<>>

=============================================================================
